---------------------------- MODULE Spec2Model ----------------------------
(***************************************************************************)
(* A model of the PicoScheme reader, printer, number type and primitive    *)
(* dispatch (streamop.cpp, number.hpp, parser.cpp, primop.cpp).            *)
(*                                                                         *)
(* Text is a sequence of characters; a character is a one-character        *)
(* string, except the end-of-file sentinel static_cast<Char>(EOF), which   *)
(* is written "EOF".  Cells are tagged records; a pair cell holds the      *)
(* address of a cons in a heap, so that set_cdr, sharing and cycles are    *)
(* those of the program.                                                   *)
(***************************************************************************)
EXTENDS Integers, Sequences, FiniteSets, TLC

VARIABLES
    \* ---- the list printer, operator<<(OSTREAM&, Cons*) ----
    pheap,      \* the cons cells the printed list lives in
    piter,      \* Cell iter
    pslow,      \* Cell slow
    pout,       \* the characters written to os so far
    ppc,        \* position of the printer: "start", "loop", "end", "done"
    \* ---- a Number built, lexed and written ----
    nsrc,       \* what the Number is made from: constructor arguments or a lexeme
    ntok,       \* the Token lex_number returned
    nnum,       \* the Number (Number& num of lex_number, or the constructed one)
    nw1,        \* the text operator<< wrote for num
    nnum2,      \* the Number lex_number makes of nw1
    nw2,        \* the text operator<< wrote for num2
    npc,        \* "input", "built", "rejected", "written", "reread", "done"
    \* ---- a primitive operation dispatched by call() ----
    heap,       \* the cons cells
    primop,     \* Intern primop
    args,       \* const varg& args
    pres,       \* the Cell call() returned
    perr,       \* the exception call() left by, or "none"
    cpc,        \* "call", "returned", "thrown"
    \* ---- Parser::read on an input stream ----
    rin,        \* the characters of the stream
    rps,        \* the stream's position and state bits, and the Parser members
                \* put_back, strtok, numtok, chrtok
    rstack,     \* the active calls of read, parse_list and parse_vector
    rret,       \* the Cell the innermost finished call returned to its caller
    rstat,      \* "ready", "reading", "returned", or the exception read left by
    rres,       \* the Cells the top-level reads returned, in order
    s_expr,     \* the value of the environment slot of Parser::s_expr
    rstart,     \* the stream positions the top-level reads started at
    rcase       \* what the stream was made from

pvars == <<pheap, piter, pslow, pout, ppc>>
nvars == <<nsrc, ntok, nnum, nw1, nnum2, nw2, npc>>
cvars == <<heap, primop, args, pres, perr, cpc>>
rvars == <<rin, rps, rstack, rret, rstat, rres, s_expr, rstart, rcase>>
vars == <<pvars, nvars, cvars, rvars>>

(***************************************************************************)
(*                               Cells                                     *)
(***************************************************************************)
nil == [t |-> "Nil"]
none == [t |-> "None"]
Sym(name) == [t |-> "Symbol", name |-> name]
ConsRef(a) == [t |-> "Cons", addr |-> a]

is_pair(c) == c.t = "Cons"
is_nil(c) == c.t = "Nil"
car(h, c) == h[c.addr].car
cdr(h, c) == h[c.addr].cdr

(***************************************************************************)
(*                          Characters and text                            *)
(***************************************************************************)
\* '\0', which also is what a std::string yields one past its last character
NUL == "NUL"
\* static_cast<Char>(EOF)
EOFCHAR == "EOF"
\* the characters '\a' and '\b': alarm, backspace
BEL == "BEL"
BS == "BS"
DigitChars == <<"0", "1", "2", "3", "4", "5", "6", "7", "8", "9">>
\* iswdigit
IsDigit(c) == \E i \in 1..10 : DigitChars[i] = c
DigitVal(c) == (CHOOSE i \in 1..10 : DigitChars[i] = c) - 1
\* iswspace / std::isspace
IsSpace(c) == c \in {" ", "\n", "\t", "\r"}
\* strchr(set, c): a pointer to the terminator, so true, when c is '\0'
StrChr(set, c) == c \in set \/ c = NUL
\* *ic for an iterator at the 1-based place i of str: '\0' at str.end()
CharAt(str, i) == IF i >= 1 /\ i <= Len(str) THEN str[i] ELSE NUL
\* str.substr(pos, n) with a 0-based pos
Substr(str, pos, n) ==
    LET last == IF pos + n > Len(str) THEN Len(str) ELSE pos + n
    IN  IF last <= pos THEN <<>> ELSE SubSeq(str, pos + 1, last)

(***************************************************************************)
(*                          Numbers, number.hpp                            *)
(*                                                                         *)
(* A Float is modelled by the rational <<n, d>> it equals (d > 0, lowest   *)
(* terms); the model's values are decimals of at most seven significant   *)
(* digits, which strtod and operator<< convert exactly.                    *)
(***************************************************************************)
Abs(n) == IF n < 0 THEN -n ELSE n

RECURSIVE Gcd(_, _)
Gcd(a, b) == IF b = 0 THEN a ELSE Gcd(b, a % b)

RECURSIVE Pow10(_)
Pow10(k) == IF k <= 0 THEN 1 ELSE 10 * Pow10(k - 1)

Rat(n, d) ==
    LET g == Gcd(Abs(n), Abs(d))
        s == IF d < 0 THEN -1 ELSE 1
    IN  IF n = 0 THEN <<0, 1>> ELSE <<(s * n) \div g, (s * d) \div g>>

RatNeg(x) == <<-x[1], x[2]>>
RatIsZero(x) == x[1] = 0
RatIsNeg(x) == x[1] < 0
RatOfInt(n) == <<n, 1>>
RatAdd(x, y) == Rat(x[1] * y[2] + y[1] * x[2], x[2] * y[2])
RatMul(x, y) == Rat(x[1] * y[1], x[2] * y[2])
\* the integer nearest to x between x and zero
RatTrunc(x) == IF x[1] < 0 THEN -((-x[1]) \div x[2]) ELSE x[1] \div x[2]

\* the three alternatives of std::variant<Int, Float, Complex>
IntNum(v) == [t |-> "Number", k |-> "Int", re |-> <<v, 1>>, im |-> <<0, 1>>]
FloatNum(x) == [t |-> "Number", k |-> "Float", re |-> x, im |-> <<0, 1>>]
\* base_type{Complex{x, y}}, and base_type::operator= from a Complex: the
\* alternative is stored as it is given
ComplexNum(x, y) == [t |-> "Number", k |-> "Complex", re |-> x, im |-> y]

is_int(num) == num.k = "Int"
is_float(num) == num.k = "Float"
is_complex(num) == num.k = "Complex"

\* Number(RE x, IM y), with the Float x of the Complex constructor
NumberXY(x, y) ==
    IF y[1] > 0 \/ y[1] < 0 THEN ComplexNum(x, y) ELSE FloatNum(x)

\* Number(const Complex& z) : Number{ z.real(), z.imag() }
NumberOfComplex(z) == NumberXY(z[1], z[2])

\* the decimal digits of n >= 0
RECURSIVE IntDigits(_)
IntDigits(n) ==
    IF n < 10 THEN <<DigitChars[n + 1]>>
    ELSE IntDigits(n \div 10) \o <<DigitChars[(n % 10) + 1]>>

\* os << x for an Int
WriteInt(v) == IF v < 0 THEN <<"-">> \o IntDigits(-v) ELSE IntDigits(v)

\* the decimal exponent E of a/d > 0: 10^E <= a/d < 10^(E+1)
RECURSIVE SciExp(_, _)
SciExp(a, d) ==
    IF a >= 10 * d THEN SciExp(a, 10 * d) + 1
    ELSE IF a < d THEN SciExp(10 * a, d) - 1
    ELSE 0

\* the last k decimal digits of n, zero-padded
RECURSIVE PadDigits(_, _)
PadDigits(n, k) ==
    IF k = 0 THEN <<>> ELSE PadDigits(n \div 10, k - 1) \o <<DigitChars[(n % 10) + 1]>>

\* os << std::scientific << x for a Float: d.dddddde+XX
WriteFloat(x) ==
    LET a == Abs(x[1])
        d == x[2]
        E == IF a = 0 THEN 0 ELSE SciExp(a, d)
        M == IF E <= 6 THEN (a * Pow10(6 - E)) \div d ELSE a \div (d * Pow10(E - 6))
        ex == IF Abs(E) < 10 THEN <<"0">> \o IntDigits(Abs(E)) ELSE IntDigits(Abs(E))
    IN  (IF x[1] < 0 THEN <<"-">> ELSE <<>>)
        \o <<DigitChars[(M \div 1000000) + 1], ".">> \o PadDigits(M, 6)
        \o <<"e", IF E < 0 THEN "-" ELSE "+">> \o ex

\* operator<<(ostream&, const Complex&), under the std::scientific that
\* operator<<(ostream&, const Number&) has set
WriteComplex(re, im) ==
    IF im[1] > 0 \/ im[1] < 0
    THEN IF im[1] < 0
         THEN IF im # <<-1, 1>>
              THEN WriteFloat(re) \o <<"-">> \o WriteFloat(im) \o <<"i">>
              ELSE WriteFloat(re) \o <<"-", "i">>
         ELSE IF im # <<1, 1>>
              THEN WriteFloat(re) \o <<"+">> \o WriteFloat(im) \o <<"i">>
              ELSE WriteFloat(re) \o <<"+", "i">>
    ELSE WriteFloat(re)

\* operator<<(ostream&, const Number&)
WriteNumber(num) ==
    IF is_int(num) THEN WriteInt(num.re[1])
    ELSE IF is_float(num) THEN WriteFloat(num.re)
    ELSE WriteComplex(num.re, num.im)

(***************************************************************************)
(*                    The numeric lexer, parser.cpp                        *)
(***************************************************************************)
\* how many digits str holds from the 1-based place i on
RECURSIVE NDigits(_, _)
NDigits(str, i) ==
    IF i <= Len(str) /\ IsDigit(str[i]) THEN 1 + NDigits(str, i + 1) ELSE 0

\* the value of the n digits of str from place i on
RECURSIVE DigitsVal(_, _, _)
DigitsVal(str, i, n) ==
    IF n = 0 THEN 0 ELSE 10 * DigitsVal(str, i, n - 1) + DigitVal(str[i + n - 1])

\* strtod / std::stod: the longest prefix [sign] digits [. digits]
\* [e [sign] digits] of str; ok is false when there is no conversion
\* (std::stod then throws std::invalid_argument)
Stod(str) ==
    LET c1 == CharAt(str, 1)
        neg == c1 = "-"
        i0 == IF c1 \in {"+", "-"} THEN 2 ELSE 1
        ni == NDigits(str, i0)
        dot == CharAt(str, i0 + ni) = "."
        nf == IF dot THEN NDigits(str, i0 + ni + 1) ELSE 0
        ie == i0 + ni + (IF dot THEN 1 + nf ELSE 0)
        hasE == CharAt(str, ie) \in {"e", "E"}
        esign == hasE /\ CharAt(str, ie + 1) \in {"+", "-"}
        ieD == IF esign THEN ie + 2 ELSE ie + 1
        ne == IF hasE THEN NDigits(str, ieD) ELSE 0
        ex == IF ne = 0 THEN 0
              ELSE IF esign /\ str[ie + 1] = "-" THEN -DigitsVal(str, ieD, ne)
              ELSE DigitsVal(str, ieD, ne)
        m == DigitsVal(str, i0, ni) * Pow10(nf)
             + (IF nf > 0 THEN DigitsVal(str, i0 + ni + 1, nf) ELSE 0)
        sm == IF neg THEN -m ELSE m
        e10 == ex - nf
    IN  IF ni + nf = 0 THEN [ok |-> FALSE, val |-> <<0, 1>>]
        ELSE [ok |-> TRUE,
              val |-> IF e10 >= 0 THEN Rat(sm * Pow10(e10), 1) ELSE Rat(sm, Pow10(-e10))]

\* std::stol: [sign] digits
Stol(str) ==
    LET c1 == CharAt(str, 1)
        i0 == IF c1 \in {"+", "-"} THEN 2 ELSE 1
        v == DigitsVal(str, i0, NDigits(str, i0))
    IN  IF c1 = "-" THEN -v ELSE v

\* num = z of line 213 (and of line 172): Number's using base_type::operator=
\* makes this std::variant's converting assignment, which stores the
\* Complex as it is; no Number constructor runs
AssignComplex(re, im) == ComplexNum(re, im)

LexError == [tok |-> "Error", num |-> IntNum(0)]
LexThrow == [tok |-> "Throw", num |-> IntNum(0)]

\* lines 212-226: the scan reached str.end()
LexNumberEnd(str, st) ==
    IF st.is_cpx THEN [tok |-> "Number", num |-> AssignComplex(st.re, st.im)]
    ELSE IF st.is_flo THEN [tok |-> "Number", num |-> FloatNum(Stod(str).val)]
    ELSE [tok |-> "Number", num |-> IntNum(Stol(str))]

\* what one pass of the loop leaves: the flags and z to go on with, or the
\* token (or exception) the scan ends with
LexGoOn(st) == [tok |-> "None", st |-> st]
LexStop(res) == [tok |-> res.tok, st |-> res]

\* lines 196-202: a sign that starts the imaginary part, r being the stod
\* of the text before it
LexSign(st, r, ip, c) ==
    IF ~r.ok THEN LexStop(LexThrow)
    ELSE LexGoOn([st EXCEPT !.is_cpx = TRUE, !.pos = ip, !.re = r.val,
                            !.im = IF c # "+" THEN <<-1, 1>> ELSE st.im])

\* lines 206-208: the imaginary part, r being the stod of the text from pos
LexImag(st, r) ==
    IF ~r.ok THEN LexStop(LexThrow)
    ELSE LexGoOn([st EXCEPT !.is_cpx = TRUE,
                            !.im = IF st.im[1] >= 0 THEN r.val ELSE RatNeg(r.val)])

\* one pass of the while loop of lines 185-211 with ic at the 1-based place
\* i (ip = i - 1)
LexNumberStep(str, i, st) ==
    LET c == str[i]
    IN  IF IsDigit(c) THEN LexGoOn(st)
        ELSE IF StrChr({".", "e", "E"}, c) THEN LexGoOn([st EXCEPT !.is_flo = TRUE])
        ELSE IF StrChr({"+", "-"}, c)
        THEN IF ~StrChr({"e", "E"}, str[i - 1])
             THEN LexSign(st, Stod(Substr(str, 0, i - 1)), i - 1, c)
             ELSE LexGoOn(st)
        ELSE IF StrChr({"i", "I"}, c) /\ i = Len(str)
        THEN IF IsDigit(str[st.pos + 1]) \/ st.pos + 2 < Len(str)
             THEN LexImag(st, Stod(Substr(str, st.pos, Len(str))))
             ELSE LexGoOn([st EXCEPT !.is_cpx = TRUE])
        ELSE LexStop(LexError)

\* the while loop of lines 185-211 and what follows it
RECURSIVE LexNumberLoop(_, _, _)
LexNumberNext(str, i, s) ==
    IF s.tok # "None" THEN s.st ELSE LexNumberLoop(str, i + 1, s.st)
LexNumberLoop(str, i, st) ==
    IF i > Len(str) THEN LexNumberEnd(str, st)
    ELSE LexNumberNext(str, i, LexNumberStep(str, i, st))

\* Parser::lex_number
lex_number(str) ==
    IF str = <<>> THEN LexError
    ELSE LET c1 == str[1]
             signed == StrChr({"+", "-", "."}, c1)
             i0 == IF signed THEN 2 ELSE 1
         IN  IF StrChr({"+", "-"}, c1) /\ StrChr({"i", "I"}, CharAt(str, 2))
             THEN [tok |-> "Number",
                   num |-> IF c1 # "-" THEN AssignComplex(<<0, 1>>, <<1, 1>>)
                           ELSE AssignComplex(<<0, 1>>, <<-1, 1>>)]
             ELSE IF IsDigit(CharAt(str, i0))
             THEN LexNumberLoop(str, i0 + 1,
                    [is_flo |-> signed /\ c1 = ".", is_cpx |-> FALSE, pos |-> 0,
                     re |-> <<0, 1>>, im |-> <<1, 1>>])
             ELSE LexError

(***************************************************************************)
(*                        Printing, streamop.cpp                           *)
(***************************************************************************)
Bool(b) == [t |-> "Bool", b |-> b]
Char(c) == [t |-> "Char", c |-> c]
Str(s) == [t |-> "String", s |-> s]
Vec(items) == [t |-> "Vector", items |-> items]

\* operator<<(OSTREAM&, const Symbol&): |name| when the name holds a ' '
WriteSymbol(name) ==
    IF \E i \in 1..Len(name) : name[i] = " "
    THEN <<"|">> \o name \o <<"|">>
    ELSE name

\* operator<<(OSTREAM&, const Cell&), the write form, for the cells that
\* hold no other cell
WriteAtom(c) ==
    CASE c.t = "None" -> <<"#", "<", "n", "o", "n", "e", ">">>
      [] c.t = "Nil" -> <<"(", ")">>
      [] c.t = "Bool" -> IF c.b THEN <<"#", "t">> ELSE <<"#", "f">>
      [] c.t = "Char" -> IF c.c # EOFCHAR THEN <<"#", "\\", c.c>>
                         ELSE <<"#", "\\", "e", "o", "f">>
      [] c.t = "String" -> <<"\"">> \o c.s \o <<"\"">>
      [] c.t = "Regex" -> <<"#", "<", "r", "e", "g", "e", "x", ">">>
      [] c.t = "Symbol" -> WriteSymbol(c.name)
      [] c.t = "Number" -> WriteNumber(c)

RECURSIVE WriteCell(_, _)

\* the list printer after line 19: '(' and the first element are written,
\* and the for loop starts with iter = slow = cdr(cons)
ListBegin(h, lst) ==
    [pc |-> "loop", iter |-> cdr(h, lst), slow |-> cdr(h, lst),
     out |-> <<"(">> \o WriteCell(h, car(h, lst))]

Ellipsis == <<" ", ".", ".", ".", ")">>

\* lines 21-31 with an iter that advances once, not twice, per pass
OneStepHareIter(h, st) ==
    IF ~is_pair(st.iter) THEN [st EXCEPT !.pc = "end"]
    ELSE LET it1 == cdr(h, st.iter)
             o1 == st.out \o <<" ">> \o WriteCell(h, car(h, st.iter))
         IN  IF st.slow = it1
             THEN [st EXCEPT !.pc = "done", !.iter = it1, !.out = o1 \o Ellipsis]
             ELSE [st EXCEPT !.iter = it1, !.slow = cdr(h, st.slow), !.out = o1]

\* One pass of the for loop of lines 21-31: its condition, its body and,
\* unless the body returns or breaks, its increment
ListIter(h, st) ==
    IF ~is_pair(st.iter) THEN [st EXCEPT !.pc = "end"]
    ELSE LET it1 == cdr(h, st.iter)
             o1 == st.out \o <<" ">> \o WriteCell(h, car(h, st.iter))
         IN  IF ~is_pair(it1) \/ st.slow = it1
             THEN IF st.slow = it1
                  THEN [st EXCEPT !.pc = "done", !.iter = it1, !.out = o1 \o Ellipsis]
                  ELSE [st EXCEPT !.pc = "end", !.iter = it1, !.out = o1]
             ELSE [st EXCEPT !.iter = cdr(h, it1), !.slow = cdr(h, st.slow),
                             !.out = o1 \o <<" ">> \o WriteCell(h, car(h, it1))]

\* lines 32-37 without the test for nil: every last cdr is written as a tail
ListEndAlwaysDot(h, st) ==
    [st EXCEPT !.pc = "done",
               !.out = st.out \o <<" ", ".", " ">> \o WriteCell(h, st.iter) \o <<")">>]

\* lines 32-37: ')' after a nil, " . t)" after any other last cdr
ListEnd(h, st) ==
    IF is_nil(st.iter)
    THEN [st EXCEPT !.pc = "done", !.out = st.out \o <<")">>]
    ELSE [st EXCEPT !.pc = "done",
                    !.out = st.out \o <<" ", ".", " ">> \o WriteCell(h, st.iter) \o <<")">>]

\* the printer run from a state to its return
RECURSIVE ListRun(_, _)
ListRun(h, st) ==
    IF st.pc = "done" THEN st.out
    ELSE IF st.pc = "end" THEN ListRun(h, ListEnd(h, st))
    ELSE ListRun(h, ListIter(h, st))

\* operator<<(OSTREAM&, Cons*)
WriteList(h, lst) == ListRun(h, ListBegin(h, lst))

\* operator<<(OSTREAM&, const VectorPtr&)
RECURSIVE WriteItems(_, _, _)
WriteItems(h, items, i) ==
    IF i > Len(items) THEN <<>>
    ELSE <<" ">> \o WriteCell(h, items[i]) \o WriteItems(h, items, i + 1)

WriteVector(h, items) ==
    IF Len(items) > 0
    THEN <<"#", "(">> \o WriteCell(h, items[1]) \o WriteItems(h, items, 2) \o <<")">>
    ELSE <<"#", "(", ")">>

\* operator<<(OSTREAM&, const Cell&)
WriteCell(h, c) ==
    IF is_pair(c) THEN WriteList(h, c)
    ELSE IF c.t = "Vector" THEN WriteVector(h, c.items)
    ELSE WriteAtom(c)

\* operator<<(OSTREAM&, const DisplayManip<StringPtr>&), from position i on
RECURSIVE DisplayString(_, _)
DisplayString(str, i) ==
    IF i > Len(str) THEN <<>>
    ELSE IF str[i] = "\\" /\ i + 1 <= Len(str)
    THEN <<(CASE str[i + 1] = "a" -> BEL
              [] str[i + 1] = "b" -> BS
              [] str[i + 1] = "n" -> "\n"
              [] str[i + 1] = "r" -> "\r"
              [] str[i + 1] = "t" -> "\t"
              [] OTHER -> str[i + 1])>> \o DisplayString(str, i + 2)
    ELSE <<str[i]>> \o DisplayString(str, i + 1)

\* operator<<(OSTREAM&, DisplayManip<Cell>)
DisplayCell(h, c) ==
    CASE c.t = "None" -> <<>>
      [] c.t = "Char" -> <<c.c>>
      [] c.t = "String" -> DisplayString(c.s, 1)
      [] OTHER -> WriteCell(h, c)

(***************************************************************************)
(*        Number arithmetic (number.cpp is not part of these sources)      *)
(***************************************************************************)
RatSub(x, y) == RatAdd(x, RatNeg(y))
RatDiv(x, y) == Rat(x[1] * y[2], x[2] * y[1])

\* operator+(const Number&, const Number&)
NumAdd(a, b) ==
    IF is_int(a) /\ is_int(b) THEN IntNum(a.re[1] + b.re[1])
    ELSE IF is_complex(a) \/ is_complex(b)
    THEN NumberXY(RatAdd(a.re, b.re), RatAdd(a.im, b.im))
    ELSE FloatNum(RatAdd(a.re, b.re))

\* operator-(const Number&, const Number&)
NumSub(a, b) ==
    IF is_int(a) /\ is_int(b) THEN IntNum(a.re[1] - b.re[1])
    ELSE IF is_complex(a) \/ is_complex(b)
    THEN NumberXY(RatSub(a.re, b.re), RatSub(a.im, b.im))
    ELSE FloatNum(RatSub(a.re, b.re))

\* operator*(const Number&, const Number&)
NumMul(a, b) ==
    IF is_int(a) /\ is_int(b) THEN IntNum(a.re[1] * b.re[1])
    ELSE IF is_complex(a) \/ is_complex(b)
    THEN NumberXY(RatSub(RatMul(a.re, b.re), RatMul(a.im, b.im)),
                  RatAdd(RatMul(a.re, b.im), RatMul(a.im, b.re)))
    ELSE FloatNum(RatMul(a.re, b.re))

\* operator/(const Number&, const Number&), b not zero: an Int only when
\* the Int operands divide exactly
NumDiv(a, b) ==
    IF is_int(a) /\ is_int(b)
    THEN IF RatDiv(a.re, b.re)[2] = 1 THEN IntNum(RatDiv(a.re, b.re)[1])
         ELSE FloatNum(RatDiv(a.re, b.re))
    ELSE IF is_complex(a) \/ is_complex(b)
    THEN LET n2 == RatAdd(RatMul(b.re, b.re), RatMul(b.im, b.im))
         IN  NumberXY(RatDiv(RatAdd(RatMul(a.re, b.re), RatMul(a.im, b.im)), n2),
                      RatDiv(RatSub(RatMul(a.im, b.re), RatMul(a.re, b.im)), n2))
    ELSE FloatNum(RatDiv(a.re, b.re))

\* is_zero
is_zero(x) == RatIsZero(x.re) /\ RatIsZero(x.im)

\* trunc(const Number&)
trunc(x) ==
    IF is_int(x) THEN x
    ELSE IF is_float(x) THEN IntNum(RatTrunc(x.re))
    ELSE NumberXY(<<RatTrunc(x.re), 1>>, <<RatTrunc(x.im), 1>>)

(***************************************************************************)
(*                       Primitive operations, primop.cpp                  *)
(***************************************************************************)
\* what a primitive leaves by: a Cell and the heap, or an exception
Returned(h, c) == [res |-> c, err |-> "none", heap |-> h]
Thrown(h, e) == [res |-> none, err |-> e, heap |-> h]

\* scm.cons / cons(car, cdr): a new pair
cons(h, a, d) == Returned(Append(h, [car |-> a, cdr |-> d]), ConsRef(Len(h) + 1))

\* set_car, set_cdr (cell.hpp is not part of these sources): the type check
\* of the set-car! and set-cdr! primitives, which call() hands on unchecked
set_car(h, c, v) == [h EXCEPT ![c.addr].car = v]
set_cdr(h, c, v) == [h EXCEPT ![c.addr].cdr = v]

IsNumber(c) == c.t = "Number"
AllNumbers(as) == \A i \in 1..Len(as) : IsNumber(as[i])

\* fun_list
RECURSIVE ListFrom(_, _, _)
ListFrom(h, as, i) ==
    IF i > Len(as) THEN h
    ELSE ListFrom(Append(h, [car |-> as[i],
                             cdr |-> IF i < Len(as) THEN ConsRef(Len(h) + 2) ELSE nil]),
                  as, i + 1)

fun_list(h, as) ==
    IF Len(as) > 0 THEN Returned(ListFrom(h, as, 1), ConsRef(Len(h) + 1))
    ELSE Returned(h, nil)

\* res op= val for the arguments from place i on
RECURSIVE FoldNum(_, _, _, _)
FoldNum(op, res, as, i) ==
    IF i > Len(as) THEN [ok |-> TRUE, val |-> res]
    ELSE IF op = "div" /\ is_zero(as[i]) THEN [ok |-> FALSE, val |-> res]
    ELSE FoldNum(op,
                 CASE op = "add" -> NumAdd(res, as[i])
                   [] op = "sub" -> NumSub(res, as[i])
                   [] op = "mul" -> NumMul(res, as[i])
                   [] op = "div" -> NumDiv(res, as[i]),
                 as, i + 1)

FoldResult(h, r) ==
    IF r.ok THEN Returned(h, r.val) ELSE Thrown(h, "arithmetic_error")

\* an addition that starts from 1
fun_add_from_one(h, as) ==
    IF ~AllNumbers(as) THEN Thrown(h, "type_error")
    ELSE FoldResult(h, FoldNum("add", IntNum(1), as, 1))

\* fun_add
fun_add(h, as) ==
    IF ~AllNumbers(as) THEN Thrown(h, "type_error")
    ELSE FoldResult(h, FoldNum("add", IntNum(0), as, 1))

\* fun_sub
fun_sub(h, as) ==
    IF Len(as) = 0 THEN Thrown(h, "out_of_range")
    ELSE IF ~AllNumbers(as) THEN Thrown(h, "type_error")
    ELSE FoldResult(h, FoldNum("sub", as[1], as, 2))

\* fun_mul
fun_mul(h, as) ==
    IF ~AllNumbers(as) THEN Thrown(h, "type_error")
    ELSE FoldResult(h, FoldNum("mul", IntNum(1), as, 1))

\* fun_div
fun_div(h, as) ==
    IF Len(as) = 0 THEN Thrown(h, "out_of_range")
    ELSE IF ~AllNumbers(as) THEN Thrown(h, "type_error")
    ELSE FoldResult(h, FoldNum("div", as[1], as, 2))

\* args.at(i) of a fixed-arity case: std::out_of_range when i is past the end
HasArgs(as, n) == Len(as) >= n

\* call(const Symenv&, Intern, const varg&)
call(h, op, as) ==
    CASE op = "op_cons" ->
           IF ~HasArgs(as, 2) THEN Thrown(h, "out_of_range") ELSE cons(h, as[1], as[2])
      [] op = "op_car" ->
           IF ~HasArgs(as, 1) THEN Thrown(h, "out_of_range")
           ELSE IF ~is_pair(as[1]) THEN Thrown(h, "type_error")
           ELSE Returned(h, car(h, as[1]))
      [] op = "op_cdr" ->
           IF ~HasArgs(as, 1) THEN Thrown(h, "out_of_range")
           ELSE IF ~is_pair(as[1]) THEN Thrown(h, "type_error")
           ELSE Returned(h, cdr(h, as[1]))
      [] op = "op_setcar" ->
           IF ~HasArgs(as, 2) THEN Thrown(h, "out_of_range")
           ELSE IF ~is_pair(as[1]) THEN Thrown(h, "type_error")
           ELSE Returned(set_car(h, as[1], as[2]), none)
      [] op = "op_setcdr" ->
           IF ~HasArgs(as, 2) THEN Thrown(h, "out_of_range")
           ELSE IF ~is_pair(as[1]) THEN Thrown(h, "type_error")
           ELSE Returned(set_cdr(h, as[1], as[2]), none)
      [] op = "op_list" -> fun_list(h, as)
      [] op = "op_add" -> fun_add(h, as)
      [] op = "op_sub" -> fun_sub(h, as)
      [] op = "op_mul" -> fun_mul(h, as)
      [] op = "op_div" -> fun_div(h, as)
      [] OTHER -> Thrown(h, "invalid_argument")

(***************************************************************************)
(*                      The input stream (std::istream)                    *)
(*                                                                         *)
(* A parser state ps holds the stream's read position and its eofbit and   *)
(* failbit next to the Parser members put_back, strtok, numtok, chrtok.    *)
(***************************************************************************)
\* in.good()
Good(ps) == ~ps.eof /\ ~ps.fail

\* in >> std::noskipws >> c: no character is stored when the stream is not
\* good or is at its end
Extract(in, ps) ==
    IF ~Good(ps) THEN [ok |-> FALSE, c |-> NUL, ps |-> [ps EXCEPT !.fail = TRUE]]
    ELSE IF ps.pos >= Len(in)
    THEN [ok |-> FALSE, c |-> NUL, ps |-> [ps EXCEPT !.eof = TRUE, !.fail = TRUE]]
    ELSE [ok |-> TRUE, c |-> in[ps.pos + 1], ps |-> [ps EXCEPT !.pos = @ + 1]]

\* in.peek(): the next character, or EOF
Peek(in, ps) ==
    IF ~Good(ps) THEN [c |-> EOFCHAR, ps |-> [ps EXCEPT !.fail = TRUE]]
    ELSE IF ps.pos >= Len(in) THEN [c |-> EOFCHAR, ps |-> [ps EXCEPT !.eof = TRUE]]
    ELSE [c |-> in[ps.pos + 1], ps |-> ps]

\* in.get()
Get(in, ps) ==
    IF ~Good(ps) THEN [c |-> EOFCHAR, ps |-> [ps EXCEPT !.fail = TRUE]]
    ELSE IF ps.pos >= Len(in)
    THEN [c |-> EOFCHAR, ps |-> [ps EXCEPT !.eof = TRUE, !.fail = TRUE]]
    ELSE [c |-> in[ps.pos + 1], ps |-> [ps EXCEPT !.pos = @ + 1]]

\* in.putback(c) of the character read last: eofbit is cleared first, and a
\* stream that is not good then fails
Putback(ps) ==
    IF ~ps.fail /\ ps.pos > 0 THEN [ps EXCEPT !.eof = FALSE, !.pos = @ - 1]
    ELSE [ps EXCEPT !.eof = FALSE, !.fail = TRUE]

\* in.ignore(max, '\n')
RECURSIVE IgnoreLine(_, _)
IgnoreLine(in, ps) ==
    IF ~Good(ps) THEN [ps EXCEPT !.fail = TRUE]
    ELSE IF ps.pos >= Len(in) THEN [ps EXCEPT !.eof = TRUE]
    ELSE IF in[ps.pos + 1] = "\n" THEN [ps EXCEPT !.pos = @ + 1]
    ELSE IgnoreLine(in, [ps EXCEPT !.pos = @ + 1])

\* in.clear()
Clear(ps) == [ps EXCEPT !.eof = FALSE, !.fail = FALSE]

(***************************************************************************)
(*                         The lexer, parser.cpp                           *)
(***************************************************************************)
UpperChars == <<"A", "B", "C", "D", "E", "F", "G", "H", "I", "J", "K", "L", "M",
                "N", "O", "P", "Q", "R", "S", "T", "U", "V", "W", "X", "Y", "Z">>
LowerChars == <<"a", "b", "c", "d", "e", "f", "g", "h", "i", "j", "k", "l", "m",
                "n", "o", "p", "q", "r", "s", "t", "u", "v", "w", "x", "y", "z">>
\* ::tolower
ToLower(c) ==
    IF \E i \in 1..26 : UpperChars[i] = c
    THEN LowerChars[CHOOSE i \in 1..26 : UpperChars[i] = c]
    ELSE c
\* the backquote character
BACKQUOTE == "BQ"
ControlChars == {NUL, EOFCHAR, BEL, BS, "\n", "\t", "\r"}
\* iswprint
IsPrint(c) == c \notin ControlChars
\* iswgraph
IsGraph(c) == IsPrint(c) /\ c # " "

\* Parser::is_special
is_special(c) == StrChr({"(", ")", "\"", "'", BACKQUOTE, ",", ";"}, c)

\* Parser::is_alpha
is_alpha(c) == IsGraph(c) /\ ~IsDigit(c) /\ ~is_special(c)

\* Parser::is_digit
is_digit(str, n0) ==
    LET n == IF n0 # 0 THEN (IF n0 < Len(str) THEN n0 ELSE Len(str)) ELSE Len(str)
        has_digit0 == IsDigit(CharAt(str, 1))
        has_sign == StrChr({"+", "-"}, CharAt(str, 1))
        has_digit == has_digit0 \/ \E k \in 1..n : IsDigit(str[k])
        has_imag == \E k \in 1..n : StrChr({"i", "I"}, str[k])
    IN  IF str = <<>> \/ (Len(str) = 1 /\ ~has_digit0) THEN FALSE
        ELSE IF \E k \in 1..n :
                  ~IsDigit(str[k]) /\ ~StrChr({"+", "-", ".", "i", "I", "e", "E"}, str[k])
        THEN FALSE
        ELSE has_digit \/ (Len(str) <= 2 /\ (has_sign \/ has_imag))

\* Parser::lex_symbol
lex_symbol(str) ==
    IF str = <<>> \/ ~is_alpha(str[1]) THEN "Error"
    ELSE IF \E k \in 1..Len(str) : ~is_alpha(str[k]) /\ ~IsDigit(str[k]) THEN "Error"
    ELSE "Symbol"

\* lines 238-249 of strnum, r being what lex_number made of the digits:
\* false for Token::Error, else num, truncated behind "#e"
StrnumCell(r, exact) ==
    IF r.tok = "Error" THEN [t |-> "Bool", b |-> FALSE]
    ELSE IF r.tok = "Throw" THEN none
    ELSE IF exact /\ r.tok = "Number" THEN trunc(r.num)
    ELSE r.num

\* Parser::strnum
strnum(str) ==
    LET pre == Substr(str, 0, 2)
    IN  StrnumCell(lex_number(IF pre \in {<<"#", "i">>, <<"#", "e">>}
                              THEN Substr(str, 2, Len(str)) ELSE str),
                   pre = <<"#", "e">>)

\* what a lexer hands back: the token, the parser state, and the exception
\* that is no parse_error it left by, if any
Lexed(tok, ps) == [tok |-> tok, ps |-> ps, exc |-> "none"]

\* Parser::lex_string; c is the local Char c, which holds junk until the
\* first character is read
RECURSIVE LexStringLoop(_, _, _)
LexStringLoop(in, ps, c) ==
    IF ps.fail THEN Lexed("Error", ps)
    ELSE LET r == Extract(in, ps)
             c1 == IF r.ok THEN r.c ELSE c
         IN  IF c1 = "\"" THEN Lexed("String", r.ps)
             ELSE IF c1 = "\\"
             THEN LET r2 == Extract(in, [r.ps EXCEPT !.strtok = Append(@, "\\")])
                      c2 == IF r2.ok THEN r2.c ELSE c1
                  IN  IF IsPrint(c2)
                      THEN LexStringLoop(in, [r2.ps EXCEPT !.strtok = Append(@, c2)], c2)
                      ELSE Lexed("Error", r2.ps)
             ELSE IF IsPrint(c1)
             THEN LexStringLoop(in, [r.ps EXCEPT !.strtok = Append(@, c1)], c1)
             ELSE Lexed("Error", r.ps)

\* a lex_string that keeps of an escape the escaped character alone
lex_string_unescaped(in, ps, junk) ==
    LET r == LexStringLoop(in, [ps EXCEPT !.strtok = <<>>], junk)
    IN  [r EXCEPT !.ps.strtok = SelectSeq(@, LAMBDA x : x # "\\")]

lex_string(in, ps, junk) == LexStringLoop(in, [ps EXCEPT !.strtok = <<>>], junk)

\* Parser::lex_regex
lex_regex(in, ps, junk) ==
    IF ps.strtok # <<"#", "r", "e">> THEN Lexed("Error", ps)
    ELSE LET g == Get(in, ps)
         IN  IF g.c # "\"" THEN Lexed("Error", g.ps)
             ELSE LET r == lex_string(in, g.ps, junk)
                  IN  IF r.tok # "String" THEN Lexed("Error", r.ps)
                      ELSE Lexed("Regex", r.ps)

\* the rows of stab that the model's inputs use, in the table's order
CharTable ==
    << <<<<"#", "\\", "e", "o", "f">>, EOFCHAR>>,
       <<<<"#", "\\", "a", "l", "a", "r", "m">>, BEL>>,
       <<<<"#", "\\", "b", "a", "c", "k", "s", "p", "a", "c", "e">>, BS>>,
       <<<<"#", "\\", "d", "e", "l", "e", "t", "e">>, NUL>>,
       <<<<"#", "\\", "e", "s", "c", "a", "p", "e">>, NUL>>,
       <<<<"#", "\\", "n", "e", "w", "l", "i", "n", "e">>, "\n">>,
       <<<<"#", "\\", "n", "u", "l", "l">>, NUL>>,
       <<<<"#", "\\", "r", "e", "t", "u", "r", "n">>, "\r">>,
       <<<<"#", "\\", "s", "p", "a", "c", "e">>, " ">>,
       <<<<"#", "\\", "t", "a", "b">>, "\t">>,
       <<<<"#", "\\", "a", "e">>, "ae_small">>,
       <<<<"#", "\\", "A", "E">>, "AE_capital">>,
       <<<<"#", "\\", "g", "a", "m", "m", "a">>, "gamma_small">>,
       <<<<"#", "\\", "G", "a", "m", "m", "a">>, "Gamma_capital">>,
       <<<<"#", "\\", "l", "a", "m", "b", "d", "a">>, "lambda_small">>,
       <<<<"#", "\\", "x", "i">>, "xi_small">>,
       <<<<"#", "\\", "X", "i">>, "Xi_capital">> >>

\* std::stoi(s), which converts in base 10, of the s that lex_char makes of
\* "#\x...": str.substr(1) with '0' for its first character
StoiOfHex(str) == Stol(<<"0">> \o SubSeq(str, 3, Len(str)))

\* static_cast<Char>(n): the character with code n
CharOfCode(n) ==
    CASE n = 0 -> NUL
      [] n = 10 -> "\n"
      [] n = 32 -> " "
      [] n >= 65 /\ n <= 90 -> UpperChars[n - 64]
      [] n >= 97 /\ n <= 122 -> LowerChars[n - 96]
      [] OTHER -> "?"

\* a lex_char that never looks at the stream behind the lexeme "#\"
lex_char_no_peek(in, ps) ==
    LET str == ps.strtok
    IN  IF Len(str) = 3 THEN Lexed("Char", [ps EXCEPT !.chrtok = str[3]])
        ELSE IF \E k \in 1..Len(CharTable) : CharTable[k][1] = str
        THEN Lexed("Char",
               [ps EXCEPT !.chrtok =
                  CharTable[CHOOSE k \in 1..Len(CharTable) : CharTable[k][1] = str][2]])
        ELSE Lexed("Error", ps)

\* Parser::lex_char
lex_char(in, ps) ==
    LET str == ps.strtok
        p1 == Peek(in, ps)
        p2 == IF IsSpace(p1.c) THEN p1 ELSE Peek(in, p1.ps)
        name == [k \in 1..Len(str) |-> ToLower(str[k])]
    IN  IF Len(str) = 2 /\ (IsSpace(p1.c) \/ is_special(p2.c))
        THEN LET g == Get(in, p2.ps)
             IN  Lexed("Char", [g.ps EXCEPT !.chrtok = g.c])
        ELSE LET ps1 == IF Len(str) = 2 THEN p2.ps ELSE ps
             IN  IF Len(str) = 3 THEN Lexed("Char", [ps1 EXCEPT !.chrtok = str[3]])
                 ELSE IF Len(str) > 3 /\ str[3] = "x"
                 THEN Lexed("Char", [ps1 EXCEPT !.chrtok = CharOfCode(StoiOfHex(str))])
                 ELSE IF \E k \in 1..Len(CharTable) : CharTable[k][1] = name
                 THEN Lexed("Char",
                        [ps1 EXCEPT !.chrtok =
                           CharTable[CHOOSE k \in 1..Len(CharTable) :
                                       /\ CharTable[k][1] = name
                                       /\ \A j \in 1..(k - 1) : CharTable[j][1] # name][2]])
                 ELSE Lexed("Error", ps1)

\* numtok behind lex_number(str, numtok), r being what lex_number made, and
\* behind the trunc of lex_special's case 'e'
SetNumtok(r, str, ps, exact) ==
    IF r.tok = "Throw" THEN [tok |-> "Throw", ps |-> ps, exc |-> "invalid_argument"]
    ELSE IF str = <<>> THEN Lexed(r.tok, ps)
    ELSE IF exact /\ r.tok = "Number"
    THEN Lexed(r.tok, [ps EXCEPT !.numtok = trunc(r.num)])
    ELSE Lexed(r.tok, [ps EXCEPT !.numtok = r.num])

\* lex_number(str, numtok) as get_token and lex_special call it
LexNumtok(str, ps, exact) == SetNumtok(lex_number(str), str, ps, exact)

\* Parser::lex_special
lex_special(in, ps, junk) ==
    LET str == ps.strtok
        c2 == CharAt(str, 2)
    IN  IF str = <<"#">> THEN Lexed("Vector", ps)
        ELSE IF c2 = "t" /\ (str = <<"#", "t">> \/ str = <<"#", "t", "r", "u", "e">>)
        THEN Lexed("True", ps)
        ELSE IF c2 \in {"t", "f"}
                /\ (str = <<"#", "f">> \/ str = <<"#", "f", "a", "l", "s", "e">>)
        THEN Lexed("False", ps)
        ELSE IF c2 \in {"t", "f", "\\"} THEN lex_char(in, ps)
        ELSE IF c2 \in {"e", "i"} THEN LexNumtok(Substr(str, 2, Len(str)), ps, c2 = "e")
        ELSE IF c2 = "r" THEN lex_regex(in, ps, junk)
        ELSE Lexed("Error", ps)

\* Parser::lex_unquote
lex_unquote(in, ps) ==
    IF Len(ps.strtok) # 1 THEN Lexed("Error", ps)
    ELSE LET p == Peek(in, ps)
         IN  IF p.c = "@" THEN Lexed("UnquoteSplice", Get(in, p.ps).ps)
             ELSE Lexed("Unquote", p.ps)

\* Parser::skip_comment
skip_comment(in, ps) == Lexed("Comment", IgnoreLine(in, ps))

\* while (in >> c && iswspace(c)) ;
RECURSIVE SkipSpace(_, _)
SkipSpace(in, ps) ==
    LET r == Extract(in, ps)
    IN  IF r.ok /\ IsSpace(r.c) THEN SkipSpace(in, r.ps) ELSE r

\* while (in >> std::noskipws >> c && !iswspace(c) && !is_special(c))
\*     strtok.push_back(c);
RECURSIVE ScanLexeme(_, _)
ScanLexeme(in, ps) ==
    LET r == Extract(in, ps)
    IN  IF r.ok /\ ~IsSpace(r.c) /\ ~is_special(r.c)
        THEN ScanLexeme(in, [r.ps EXCEPT !.strtok = Append(@, r.c)])
        ELSE r.ps

\* lines 564-601: the token of the lexeme in strtok
Classify(in, ps, junk) ==
    LET c == ps.strtok[1]
    IN  CASE c = "(" -> Lexed("OBrace", ps)
          [] c = ")" -> Lexed("CBrace", ps)
          [] c = "'" -> Lexed("Quote", ps)
          [] c = BACKQUOTE -> Lexed("QuasiQuote", ps)
          [] c = "," -> lex_unquote(in, ps)
          [] c = ";" -> skip_comment(in, ps)
          [] c = "#" -> lex_special(in, ps, junk)
          [] c = "\"" -> lex_string(in, ps, junk)
          [] OTHER ->
               IF c = "." /\ Len(ps.strtok) = 1 THEN Lexed("Dot", ps)
               ELSE IF is_digit(ps.strtok, 2) THEN LexNumtok(ps.strtok, ps, FALSE)
               ELSE Lexed(lex_symbol(ps.strtok), ps)

\* a get_token that hands out the put-back token and keeps it
TakePutBackKeeps(ps) == Lexed(ps.put_back, ps)

\* get_token, lines 537-541: the put-back token is handed out and forgotten
TakePutBack(ps) == Lexed(ps.put_back, [ps EXCEPT !.put_back = "None"])

\* Parser::get_token
get_token(in, ps, junk) ==
    IF ps.put_back # "None" THEN TakePutBack(ps)
    ELSE LET r == SkipSpace(in, ps)
         IN  IF ~Good(r.ps) THEN Lexed(IF r.ps.eof THEN "Eof" ELSE "Error", r.ps)
             ELSE LET ps1 == [r.ps EXCEPT !.strtok = <<r.c>>]
                  IN  Classify(in,
                               IF ~is_special(r.c) THEN Putback(ScanLexeme(in, ps1))
                               ELSE ps1,
                               junk)

(***************************************************************************)
(*                                Bounds                                   *)
(***************************************************************************)
\* the longest pair chain the printer is run on
MaxCells == 4
\* the largest magnitude of the numbers built and passed as arguments
MaxNum == 2
\* the most arguments call() is given
MaxArgs == 3
\* the top-level reads on one stream
MaxReads == 2
\* the elements of the lists that are written and read back
MaxListLen == 2
\* the longest symbol name and string that is written and displayed
MaxNameLen == 3
\* the characters and escapes of the string literals that are read
MaxUnits == 2

(***************************************************************************)
(*   Each part of the program runs as a process of its own; the variables  *)
(*   of the parts that do not run keep these values.                       *)
(***************************************************************************)
IdlePrint ==
    pheap = <<>> /\ piter = nil /\ pslow = nil /\ pout = <<>> /\ ppc = "off"

IdleNum ==
    /\ nsrc = [kind |-> "none", x |-> <<0, 1>>, y |-> <<0, 1>>, str |-> <<>>]
    /\ ntok = "None" /\ nnum = IntNum(0) /\ nw1 = <<>>
    /\ nnum2 = IntNum(0) /\ nw2 = <<>> /\ npc = "off"

IdleCall ==
    primop = "none" /\ args = <<>> /\ pres = none /\ perr = "none" /\ cpc = "off"

\* a stream at its start and a Parser as constructed
NewParser ==
    [pos |-> 0, eof |-> FALSE, fail |-> FALSE, put_back |-> "None",
     strtok |-> <<>>, numtok |-> IntNum(0), chrtok |-> NUL]

IdleRead ==
    /\ rin = <<>> /\ rps = NewParser /\ rstack = <<>> /\ rret = none
    /\ rstat = "off" /\ rres = <<>> /\ s_expr = none /\ rstart = <<>>
    /\ rcase = [kind |-> "none"]

(***************************************************************************)
(*            The list printer as a process, one loop pass a step          *)
(***************************************************************************)
SymA == Sym(<<"a">>)
SymB == Sym(<<"b">>)

\* a chain of n pairs 1 -> 2 -> ... -> n whose last cdr is last
Chain(n, cars, last) ==
    [i \in 1..n |-> [car |-> cars[i],
                     cdr |-> IF i < n THEN ConsRef(i + 1) ELSE last]]

\* the output any chain of at most MaxCells + 1 pairs fits in
MaxOut == 4 * (MaxCells + 1) + 8

PState == [pc |-> ppc, iter |-> piter, slow |-> pslow, out |-> pout]

InitPrint ==
    /\ \E n \in 1..MaxCells :
         \E cars \in [1..n -> {SymA, SymB}] :
           \E last \in {nil, SymB} \cup {ConsRef(k) : k \in 1..n} :
             pheap = Chain(n, cars, last)
    /\ piter = ConsRef(1)
    /\ pslow = nil
    /\ pout = <<>>
    /\ ppc = "start"
    /\ heap = <<>>
    /\ IdleNum /\ IdleCall /\ IdleRead

PrintSet(st) ==
    /\ ppc' = st.pc
    /\ piter' = st.iter
    /\ pslow' = st.slow
    /\ pout' = st.out
    /\ UNCHANGED <<pheap, nvars, cvars, rvars>>

\* lines 16-19
PrintBegin ==
    /\ ppc = "start"
    /\ PrintSet(ListBegin(pheap, piter))

\* lines 21-31, one pass
PrintIter ==
    /\ ppc = "loop"
    /\ Len(pout) < MaxOut
    /\ PrintSet(ListIter(pheap, PState))

\* lines 32-37
PrintEnd ==
    /\ ppc = "end"
    /\ PrintSet(ListEnd(pheap, PState))

NextPrint == PrintBegin \/ PrintIter \/ PrintEnd

\* the printer is sequential code: it takes its next step whenever it has one
SpecPrint == InitPrint /\ [][NextPrint]_vars /\ WF_vars(NextPrint)

\* the cdr chain from pair 1 comes back to a pair: the last cdr is a pair
PCyclic == ppc # "off" /\ is_pair(pheap[Len(pheap)].cdr)

EndsWith(out, suffix) ==
    /\ Len(out) >= Len(suffix)
    /\ SubSeq(out, Len(out) - Len(suffix) + 1, Len(out)) = suffix

\* C1: writing a pair chain whose cdr chain is circular (any tail, any cycle
\* length >= 1) stops: the printer reaches its return, and what it has then
\* written ends with " ...)".
C1_CyclicPrintStops ==
    PCyclic ~> (ppc = "done" /\ EndsWith(pout, Ellipsis))

\* a circular chain with a tail before the cycle has been printed to the end
C1_Witness ==
    /\ ppc = "done"
    /\ Len(pheap) >= 3
    /\ pheap[Len(pheap)].cdr = ConsRef(2)

\* the elements of the chain from pair i on, each written once, in list
\* order, with one space between two of them
RECURSIVE ElemsText(_, _)
ElemsText(h, i) ==
    WriteAtom(h[i].car) \o (IF i < Len(h) THEN <<" ">> \o ElemsText(h, i + 1) ELSE <<>>)

\* the text of an acyclic chain: ")" behind a Nil, " . t)" behind another t
ChainText(h) ==
    <<"(">> \o ElemsText(h, 1)
        \o (IF is_nil(h[Len(h)].cdr) THEN <<")">>
            ELSE <<" ", ".", " ">> \o WriteAtom(h[Len(h)].cdr) \o <<")">>)

\* C16: for a finite acyclic pair chain the list printer emits "(", each
\* element once in list order with single spaces between them, then ")" when
\* the chain ends in Nil or " . t)" when it ends in another non-pair t; the
\* cycle marker " ...)" is never written for such a chain.
C16_AcyclicListText ==
    (ppc = "done" /\ pheap # <<>> /\ ~PCyclic) =>
        /\ pout = ChainText(pheap)
        /\ ~EndsWith(pout, Ellipsis)

\* a proper list and a dotted chain of three pairs have been printed
C16_Witness ==
    /\ ppc = "done"
    /\ Len(pheap) = 3
    /\ ~PCyclic
    /\ pheap[1].car # pheap[2].car
    /\ pout \in {ChainText(Chain(3, <<SymA, SymB, SymA>>, nil)),
                 ChainText(Chain(3, <<SymB, SymA, SymB>>, SymB))}

(***************************************************************************)
(*      A Number built or lexed, written, lexed again and written again    *)
(***************************************************************************)
NumSrc(kind, x, y, str) == [kind |-> kind, x |-> x, y |-> y, str |-> str]

SmallRats == {<<v, 1>> : v \in -MaxNum..MaxNum}

\* numeric lexemes: a+bi and a-bi over short digit sequences, the +i / -i
\* shorthands, and integers and reals in their usual forms
Lexemes ==
    {<<a, s, b, "i">> : a \in {"1", "2"}, s \in {"+", "-"}, b \in {"0", "1", "3"}}
    \cup {<<a, s, "i">> : a \in {"1", "2"}, s \in {"+", "-"}}
    \cup {<<"+", "i">>, <<"-", "i">>, <<"2", "i">>, <<"+", "2", "i">>,
          <<"7">>, <<"-", "7">>, <<"1", "2">>, <<"1", ".", "5">>, <<".", "5">>,
          <<"1", "e", "2">>, <<"2", "e", "-", "1">>, <<"1", "+">>, <<"x">>,
          <<"1", "x">>, <<"+">>, <<>>,
          <<"1", "2", "+", "3", "4", "i">>, <<"1", "2", "-", "3", "4", "i">>}

\* texts handed to string->number
StrnumTexts ==
    {<<"#", "e", "1", ".", "5">>, <<"#", "i", "1", "-", "0", "i">>,
     <<"#", "e", "2", "+", "0", "i">>, <<"2", "-", "0", "i">>, <<"7">>, <<"#", "x">>}

InitNum ==
    /\ nsrc \in {NumSrc("int", <<v, 1>>, <<0, 1>>, <<>>) : v \in -MaxNum..MaxNum}
            \cup {NumSrc("pair", x, y, <<>>) : x \in SmallRats, y \in SmallRats}
            \cup {NumSrc("complex", x, y, <<>>) : x \in SmallRats, y \in SmallRats}
            \cup {NumSrc("lexeme", <<0, 1>>, <<0, 1>>, str) : str \in Lexemes}
            \cup {NumSrc("strnum", <<0, 1>>, <<0, 1>>, str) : str \in StrnumTexts}
    /\ ntok = "None" /\ nnum = IntNum(0) /\ nw1 = <<>>
    /\ nnum2 = IntNum(0) /\ nw2 = <<>> /\ npc = "input"
    /\ heap = <<>>
    /\ IdlePrint /\ IdleCall /\ IdleRead

\* Number(T x) for an integral x, Number(RE x, IM y), Number(const Complex&)
NumConstruct ==
    /\ npc = "input"
    /\ nsrc.kind \in {"int", "pair", "complex"}
    /\ nnum' = CASE nsrc.kind = "int" -> IntNum(nsrc.x[1])
                 [] nsrc.kind = "pair" -> NumberXY(nsrc.x, nsrc.y)
                 [] nsrc.kind = "complex" -> NumberOfComplex(<<nsrc.x, nsrc.y>>)
    /\ npc' = "built"
    /\ UNCHANGED <<nsrc, ntok, nw1, nnum2, nw2, pvars, cvars, rvars>>

\* lex_number(str, num)
NumLex ==
    /\ npc = "input"
    /\ nsrc.kind = "lexeme"
    /\ LET r == lex_number(nsrc.str)
       IN  /\ ntok' = r.tok
           /\ nnum' = r.num
           /\ npc' = IF r.tok = "Number" THEN "built" ELSE "rejected"
    /\ UNCHANGED <<nsrc, nw1, nnum2, nw2, pvars, cvars, rvars>>

\* strnum(str)
NumStrnum ==
    /\ npc = "input"
    /\ nsrc.kind = "strnum"
    /\ LET r == strnum(nsrc.str)
       IN  /\ ntok' = IF IsNumber(r) THEN "Number" ELSE "Error"
           /\ nnum' = IF IsNumber(r) THEN r ELSE nnum
           /\ npc' = IF IsNumber(r) THEN "built" ELSE "rejected"
    /\ UNCHANGED <<nsrc, nw1, nnum2, nw2, pvars, cvars, rvars>>

\* os << num
NumWrite ==
    /\ npc = "built"
    /\ nw1' = WriteNumber(nnum)
    /\ npc' = "written"
    /\ UNCHANGED <<nsrc, ntok, nnum, nnum2, nw2, pvars, cvars, rvars>>

\* lex_number on the text written
NumReread ==
    /\ npc = "written"
    /\ LET r == lex_number(nw1)
       IN  /\ nnum2' = r.num
           /\ npc' = IF r.tok = "Number" THEN "reread" ELSE "unread"
    /\ UNCHANGED <<nsrc, ntok, nnum, nw1, nw2, pvars, cvars, rvars>>

\* os << the number read back
NumRewrite ==
    /\ npc = "reread"
    /\ nw2' = WriteNumber(nnum2)
    /\ npc' = "done"
    /\ UNCHANGED <<nsrc, ntok, nnum, nw1, nnum2, pvars, cvars, rvars>>

NextNum == NumConstruct \/ NumLex \/ NumStrnum \/ NumWrite \/ NumReread \/ NumRewrite

SpecNum == InitNum /\ [][NextNum]_vars

\* C2: no Number holds a Complex whose imaginary part is exactly zero, be it
\* built by a Number constructor or assigned by lex_number to its result.
C2_NoComplexWithZeroImag ==
    \A n \in {nnum, nnum2} : is_complex(n) => ~RatIsZero(n.im)

\* str is a k "+" b "i" or a k "-" b "i": digits, a sign at place k, digits
\* (none for the a+i and a-i forms), and the final i
IsComplexForm(str, k) ==
    /\ k > 1 /\ k < Len(str)
    /\ str[k] \in {"+", "-"}
    /\ str[Len(str)] = "i"
    /\ \A j \in 1..(Len(str) - 1) : j # k => IsDigit(str[j])

\* the Complex the form stands for
ComplexOfForm(str, k) ==
    LET a == DigitsVal(str, 1, k - 1)
        b == IF k + 1 = Len(str) THEN 1 ELSE DigitsVal(str, k + 1, Len(str) - k - 1)
    IN  ComplexNum(<<a, 1>>, IF str[k] = "+" THEN <<b, 1>> ELSE <<-b, 1>>)

\* C13: for a lexeme a+bi or a-bi of unsigned digit sequences a and b the
\* numeric lexer yields the Complex with real part a and imaginary part +b
\* for "+" and -b for "-"; for a+i and a-i the imaginary part is +1 and -1.
C13_ComplexLexing ==
    (nsrc.kind = "lexeme" /\ npc # "input") =>
        \A k \in 1..Len(nsrc.str) :
            IsComplexForm(nsrc.str, k) =>
                ntok = "Number" /\ nnum = ComplexOfForm(nsrc.str, k)

\* C4: for any Number n, the text written for n is read by lex_number as a
\* number, and that number is written as the same text.
C4_PrintRoundTrip ==
    /\ npc # "unread"
    /\ npc = "done" => nw2 = nw1

(***************************************************************************)
(*                 A primitive operation dispatched by call()              *)
(***************************************************************************)
Opcodes == {"op_cons", "op_car", "op_cdr", "op_setcar", "op_setcdr", "op_list",
            "op_add", "op_sub", "op_mul", "op_div", "op_other"}

\* the pairs call() finds: the list (1 2)
CallHeap == <<[car |-> IntNum(1), cdr |-> ConsRef(2)],
              [car |-> IntNum(2), cdr |-> nil]>>

ArgCells == {IntNum(v) : v \in -MaxNum..MaxNum} \cup {nil, ConsRef(1), ConsRef(2)}

InitCall ==
    /\ heap = CallHeap
    /\ primop \in Opcodes
    /\ \E n \in 0..MaxArgs : args \in [1..n -> ArgCells]
    /\ pres = none /\ perr = "none" /\ cpc = "call"
    /\ IdlePrint /\ IdleNum /\ IdleRead

\* call(senv, primop, args)
Call ==
    /\ cpc = "call"
    /\ LET r == call(heap, primop, args)
       IN  /\ heap' = r.heap
           /\ pres' = r.res
           /\ perr' = r.err
           /\ cpc' = IF r.err = "none" THEN "returned" ELSE "thrown"
    /\ UNCHANGED <<primop, args, pvars, nvars, rvars>>

NextCall == Call

SpecCall == InitCall /\ [][NextCall]_vars

NumIsOne(x) == x.re = <<1, 1>> /\ RatIsZero(x.im)

\* C10: with exactly one argument x, op_sub returns the negation of x (what
\* it returns and x add up to zero) and op_div the reciprocal of a non-zero x
\* (what it returns, times x, is one).
C10_UnaryIdentities ==
    (cpc = "returned" /\ Len(args) = 1) =>
        /\ primop = "op_sub" => IsNumber(pres) /\ is_zero(NumAdd(pres, args[1]))
        /\ (primop = "op_div" /\ ~is_zero(args[1])) =>
               IsNumber(pres) /\ NumIsOne(NumMul(pres, args[1]))

\* ((id op a1) op ...) op an for the first n of the integers vals
RECURSIVE IntFold(_, _, _, _)
IntFold(op, id, vals, n) ==
    IF n = 0 THEN id
    ELSE IF op = "add" THEN IntFold(op, id, vals, n - 1) + vals[n]
    ELSE IntFold(op, id, vals, n - 1) * vals[n]

\* the integers the Int arguments hold
ArgInts == [i \in 1..Len(args) |-> args[i].re[1]]
AllIntArgs == \A i \in 1..Len(args) : IsNumber(args[i]) /\ is_int(args[i])

\* C11: op_add and op_mul are left folds from their identity: with no
\* arguments they return Int 0 and Int 1, and with the arguments a1..an they
\* return ((0 + a1) + ...) + an and ((1 * a1) * ...) * an.
C11_FoldFromIdentity ==
    (cpc # "call" /\ AllIntArgs) =>
        /\ primop = "op_add" =>
              cpc = "returned" /\ pres = IntNum(IntFold("add", 0, ArgInts, Len(args)))
        /\ primop = "op_mul" =>
              cpc = "returned" /\ pres = IntNum(IntFold("mul", 1, ArgInts, Len(args)))
C11_Witness ==
    /\ cpc = "returned" /\ primop = "op_add"
    /\ args = <<IntNum(1), IntNum(2), IntNum(2)>>
    /\ pres = IntNum(5)

\* the number of arguments a fixed-arity primitive takes
Arity(op) ==
    CASE op \in {"op_car", "op_cdr"} -> 1
      [] op \in {"op_cons", "op_setcar", "op_setcdr"} -> 2

FixedArity == {"op_cons", "op_car", "op_cdr", "op_setcar", "op_setcdr"}

\* C12: call() on a fixed-arity primitive (cons, car, cdr, set-car!,
\* set-cdr!) with too few or too many arguments raises an error and returns
\* no value, and call() on an opcode without a table entry raises an error.
C12_ArityErrors ==
    cpc # "call" =>
        /\ (primop \in FixedArity /\ Len(args) # Arity(primop)) => cpc = "thrown"
        /\ primop = "op_other" => cpc = "thrown"

(***************************************************************************)
(*        Parser::read, parse_list and parse_vector as a process            *)
(*                                                                         *)
(* rstack holds one frame for each active call; the last frame is the      *)
(* innermost call.  A frame's k tells the call and the place it is at:     *)
(*   "read"       read, at its get_token                                   *)
(*   "quote"      read, waiting for the datum of a quote form               *)
(*   "list"       parse_list, at the head of its loop                      *)
(*   "list_item"  parse_list, waiting for cell = read(in) of an element    *)
(*   "list_dot"   parse_list, waiting for cell = read(in) behind a dot     *)
(*   "vec_open"   parse_vector, at its first get_token                     *)
(*   "vec"        parse_vector, at the head of its loop                    *)
(*   "vec_item"   parse_vector, waiting for the read(in) of push_back      *)
(***************************************************************************)
Frame(k, list, tail, items, sym) ==
    [k |-> k, list |-> list, tail |-> tail, items |-> items, sym |-> sym]
ReadFrame == Frame("read", nil, nil, <<>>, none)

Top == rstack[Len(rstack)]
Callers == SubSeq(rstack, 1, Len(rstack) - 1)

\* scm.addenv(sym, val) (scheme.hpp is not part of these sources): the slot
\* of sym holds val from now on
addenv(slot, val) == val

\* scm.list(sym, cell) (scheme.hpp is not part of these sources)
scm_list(h, a, b) ==
    LET c1 == cons(h, b, nil) IN cons(c1.heap, a, c1.res)

s_quote == Sym(<<"q", "u", "o", "t", "e">>)
s_quasiquote == Sym(<<"q", "u", "a", "s", "i", "q", "u", "o", "t", "e">>)
s_unquote == Sym(<<"u", "n", "q", "u", "o", "t", "e">>)
s_unquotesplice ==
    Sym(<<"u", "n", "q", "u", "o", "t", "e", "-", "s", "p", "l", "i", "c", "i", "n", "g">>)

QuoteSym(tok) ==
    CASE tok = "Quote" -> s_quote
      [] tok = "QuasiQuote" -> s_quasiquote
      [] tok = "Unquote" -> s_unquote
      [] tok = "UnquoteSplice" -> s_unquotesplice

Regex(s) == [t |-> "Regex", s |-> s]

\* the Cell read returns for the token of an atom
AtomOfToken(tok, ps) ==
    CASE tok = "True" -> Bool(TRUE)
      [] tok = "False" -> Bool(FALSE)
      [] tok = "Char" -> Char(ps.chrtok)
      [] tok = "Number" -> ps.numtok
      [] tok = "String" -> Str(ps.strtok)
      [] tok = "Regex" -> Regex(ps.strtok)
      [] tok = "Symbol" -> Sym(ps.strtok)
      [] tok = "Eof" -> Char(EOFCHAR)

\* a switch that takes the end of the input for the ")" of the list
ListBranchEofCloses(tok) ==
    CASE tok = "Comment" -> "skip"
      [] tok \in {"CBrace", "Eof"} -> "return"
      [] tok = "Dot" -> "dot"
      [] tok = "Error" -> "error"
      [] OTHER -> "item"

\* the switch of parse_list's loop
ListBranch(tok) ==
    CASE tok = "Comment" -> "skip"
      [] tok = "CBrace" -> "return"
      [] tok = "Dot" -> "dot"
      [] tok \in {"Eof", "Error"} -> "error"
      [] OTHER -> "item"

\* the switch of parse_vector's loop
VectorBranch(tok) ==
    CASE tok = "Comment" -> "skip"
      [] tok = "CBrace" -> "return"
      [] tok \in {"Eof", "Error"} -> "error"
      [] OTHER -> "item"

\* a parse_list that drops the datum behind the dot
DotCloseDrops(h, list, tail, cell) ==
    IF is_pair(tail) THEN Returned(h, list)
    ELSE Thrown(h, "type_error")

\* parse_list behind "." datum ")": the datum becomes the cdr of tail
DotClose(h, list, tail, cell) ==
    IF is_pair(tail) THEN Returned(set_cdr(h, tail, cell), list)
    ELSE Thrown(h, "type_error")

\* parse_list behind an element: the list, its tail and the slot of s_expr
ListAppend(h, fr, cell, slot) ==
    LET c == cons(h, cell, nil)
    IN  IF is_pair(fr.tail)
        THEN [heap |-> set_cdr(c.heap, fr.tail, c.res),
              frame |-> [fr EXCEPT !.k = "list", !.tail = c.res],
              slot |-> slot]
        ELSE [heap |-> c.heap,
              frame |-> [fr EXCEPT !.k = "list", !.list = c.res, !.tail = c.res],
              slot |-> addenv(slot, c.res)]

JunkChars == {"\"", NUL}

ReadSet(ps, h, stack, ret, stat, res, slot) ==
    /\ rps' = ps
    /\ heap' = h
    /\ rstack' = stack
    /\ rret' = ret
    /\ rstat' = stat
    /\ rres' = res
    /\ s_expr' = slot
    /\ UNCHANGED <<rin, rstart, rcase, primop, args, pres, perr, cpc, pvars, nvars>>

\* what a top-level read left by
Outcome(stat, cell) == [stat |-> stat, cell |-> cell]

\* an exception leaves every active call
Throw(ps, h, exc) ==
    ReadSet(ps, h, <<>>, none, exc, Append(rres, Outcome(exc, none)), s_expr)

\* the innermost call returns cell
Return(ps, h, cell) ==
    IF Len(rstack) = 1
    THEN ReadSet(ps, h, <<>>, none, "returned",
                 Append(rres, Outcome("returned", cell)), s_expr)
    ELSE ReadSet(ps, h, Callers, cell, "reading", rres, s_expr)

\* the innermost call goes on at frame fr
Goto(ps, h, fr) ==
    ReadSet(ps, h, Append(Callers, fr), none, "reading", rres, s_expr)

\* the innermost call, at frame fr, calls read(in), which clears the stream
Descend(ps, h, fr) ==
    ReadSet(Clear(ps), h, Append(Append(Callers, fr), ReadFrame), none,
            "reading", rres, s_expr)


\* Cell Parser::read(istream_type& in), called from outside the parser
ReadStart ==
    /\ rstat \notin {"off", "reading"}
    /\ Len(rstart) < MaxReads
    /\ rps' = Clear(rps)
    /\ rstack' = <<ReadFrame>>
    /\ rret' = none
    /\ rstat' = "reading"
    /\ rstart' = Append(rstart, rps.pos)
    /\ UNCHANGED <<rin, rres, s_expr, rcase, cvars, pvars, nvars>>

\* read: one pass of for (;;) switch (get_token(in)), up to the call of
\* read(in), parse_vector(in) or parse_list(in) when the token opens a datum
ReadSwitch(r) ==
    CASE r.tok = "Throw" -> Throw(r.ps, heap, r.exc)
      [] r.tok = "Comment" -> Goto(r.ps, heap, Top)
      [] r.tok \in {"True", "False", "Char", "Number", "String", "Regex",
                    "Symbol", "Eof"} ->
           Return(r.ps, heap, AtomOfToken(r.tok, r.ps))
      [] r.tok \in {"Quote", "QuasiQuote", "Unquote", "UnquoteSplice"} ->
           Descend(r.ps, heap, Frame("quote", nil, nil, <<>>, QuoteSym(r.tok)))
      [] r.tok = "Vector" -> Goto(r.ps, heap, Frame("vec_open", nil, nil, <<>>, none))
      [] r.tok = "OBrace" -> Goto(r.ps, heap, Frame("list", nil, nil, <<>>, none))
      [] OTHER -> Throw(r.ps, heap, "parse_error")

ReadTok ==
    /\ rstat = "reading"
    /\ Top.k = "read"
    /\ \E junk \in JunkChars : ReadSwitch(get_token(rin, rps, junk))

\* read: return scm.list(s_quote, read(in)) and its like
QuoteWrap ==
    /\ rstat = "reading"
    /\ Top.k = "quote"
    /\ LET c == scm_list(heap, Top.sym, rret)
       IN  Return(rps, c.heap, c.res)

\* parse_list: switch (tok = get_token(in)) up to the read(in) of an element
\* or of the datum behind a dot
ListSwitch(r) ==
    LET b == ListBranch(r.tok)
    IN  CASE r.tok = "Throw" -> Throw(r.ps, heap, r.exc)
          [] r.tok # "Throw" /\ b = "skip" -> Goto(r.ps, heap, Top)
          [] r.tok # "Throw" /\ b = "return" -> Return(r.ps, heap, Top.list)
          [] r.tok # "Throw" /\ b = "dot" ->
               Descend(r.ps, heap, [Top EXCEPT !.k = "list_dot"])
          [] r.tok # "Throw" /\ b = "error" -> Throw(r.ps, heap, "parse_error")
          [] r.tok # "Throw" /\ b = "item" ->
               Descend([r.ps EXCEPT !.put_back = r.tok], heap,
                       [Top EXCEPT !.k = "list_item"])

\* parse_list: one pass of while (in.good())
ListTok ==
    /\ rstat = "reading"
    /\ Top.k = "list"
    /\ IF ~Good(rps) THEN Throw(rps, heap, "parse_error")
       ELSE \E junk \in JunkChars : ListSwitch(get_token(rin, rps, junk))

\* parse_list: the element read is consed to the list
ListCons ==
    /\ rstat = "reading"
    /\ Top.k = "list_item"
    /\ LET a == ListAppend(heap, Top, rret, s_expr)
       IN  ReadSet(rps, a.heap, Append(Callers, a.frame), none, "reading", rres, a.slot)

\* parse_list: tok = get_token(in) behind the datum that follows a dot
DotSwitch(r) ==
    LET d == DotClose(heap, Top.list, Top.tail, rret)
    IN  IF r.tok = "CBrace"
        THEN IF d.err = "none" THEN Return(r.ps, d.heap, d.res)
             ELSE Throw(r.ps, d.heap, d.err)
        ELSE IF r.tok = "Throw" THEN Throw(r.ps, heap, r.exc)
        ELSE Throw(r.ps, heap, "parse_error")

\* parse_list: the token behind the datum that follows a dot
ListDot ==
    /\ rstat = "reading"
    /\ Top.k = "list_dot"
    /\ \E junk \in JunkChars : DotSwitch(get_token(rin, rps, junk))

\* parse_vector: if (tok == Token::OBrace) ... else the error
VecOpenSwitch(r) ==
    IF r.tok = "OBrace" THEN Goto(r.ps, heap, [Top EXCEPT !.k = "vec"])
    ELSE IF r.tok = "Throw" THEN Throw(r.ps, heap, r.exc)
    ELSE Throw(r.ps, heap, "parse_error")

\* parse_vector: the new vector and the token behind "#"
VecOpen ==
    /\ rstat = "reading"
    /\ Top.k = "vec_open"
    /\ \E junk \in JunkChars : VecOpenSwitch(get_token(rin, rps, junk))

\* parse_vector: switch (tok = get_token(in)) up to the read(in) of an item
VecSwitch(r) ==
    LET b == VectorBranch(r.tok)
    IN  CASE r.tok = "Throw" -> Throw(r.ps, heap, r.exc)
          [] r.tok # "Throw" /\ b = "skip" -> Goto(r.ps, heap, Top)
          [] r.tok # "Throw" /\ b = "return" -> Return(r.ps, heap, Vec(Top.items))
          [] r.tok # "Throw" /\ b = "error" -> Throw(r.ps, heap, "parse_error")
          [] r.tok # "Throw" /\ b = "item" ->
               Descend([r.ps EXCEPT !.put_back = r.tok], heap,
                       [Top EXCEPT !.k = "vec_item"])

\* parse_vector: one pass of while (in.good())
VecTok ==
    /\ rstat = "reading"
    /\ Top.k = "vec"
    /\ IF ~Good(rps) THEN Throw(rps, heap, "parse_error")
       ELSE \E junk \in JunkChars : VecSwitch(get_token(rin, rps, junk))

\* parse_vector: vptr->push_back(read(in))
VecPush ==
    /\ rstat = "reading"
    /\ Top.k = "vec_item"
    /\ Goto(rps, heap, [Top EXCEPT !.k = "vec", !.items = Append(@, rret)])

\* os << cell for the cell the last top-level read returned
WriteResult ==
    /\ rstat = "returned"
    /\ ppc = "off"
    /\ piter' = rres[Len(rres)].cell
    /\ pout' = WriteCell(heap, rres[Len(rres)].cell)
    /\ ppc' = "wrote"
    /\ UNCHANGED <<pheap, pslow, rvars, cvars, nvars>>

NextRead ==
    ReadStart \/ ReadTok \/ QuoteWrap \/ ListTok \/ ListCons \/ ListDot
    \/ VecOpen \/ VecTok \/ VecPush \/ WriteResult


(***************************************************************************)
(*                     The data the streams are made from                  *)
(*                                                                         *)
(* A datum is a cell that holds no pair, a vector of data, or a list of    *)
(* data with the datum its last cdr is.                                    *)
(***************************************************************************)
ListT(items, last) == [t |-> "List", items |-> items, last |-> last]

\* the cells of datum d, allocated with cons
RECURSIVE Build(_, _), BuildList(_, _, _, _), BuildItems(_, _, _)
Build(h, d) ==
    IF d.t = "List" THEN BuildList(h, d.items, 1, d.last)
    ELSE IF d.t = "Vector"
    THEN LET r == BuildItems(h, d.items, 1) IN Returned(r.heap, Vec(r.cells))
    ELSE Returned(h, d)
BuildList(h, items, i, last) ==
    IF i > Len(items) THEN Build(h, last)
    ELSE LET a == Build(h, items[i])
             r == BuildList(a.heap, items, i + 1, last)
         IN  cons(r.heap, a.res, r.res)
BuildItems(h, items, i) ==
    IF i > Len(items) THEN [heap |-> h, cells |-> <<>>]
    ELSE LET a == Build(h, items[i])
             r == BuildItems(a.heap, items, i + 1)
         IN  [heap |-> r.heap, cells |-> <<a.res>> \o r.cells]

\* the datum a cell is: is_equal of two cells is the equality of their data
RECURSIVE Tree(_, _), TreeItems(_, _), TreeLast(_, _)
Tree(h, c) ==
    IF is_pair(c) THEN ListT(TreeItems(h, c), TreeLast(h, c))
    ELSE IF c.t = "Vector" THEN Vec([i \in 1..Len(c.items) |-> Tree(h, c.items[i])])
    ELSE c
TreeItems(h, c) ==
    IF is_pair(c) THEN <<Tree(h, car(h, c))>> \o TreeItems(h, cdr(h, c)) ELSE <<>>
TreeLast(h, c) == IF is_pair(c) THEN TreeLast(h, cdr(h, c)) ELSE Tree(h, c)

\* the list of items, Nil when there are none
ProperList(items) == IF items = <<>> THEN nil ELSE ListT(items, nil)

\* the text write makes of datum d
WriteTree(d) == LET b == Build(<<>>, d) IN WriteCell(b.heap, b.res)

\* the texts of items, each behind sep
RECURSIVE Joined(_, _, _)
Joined(items, i, sep) ==
    IF i > Len(items) THEN <<>>
    ELSE sep \o WriteTree(items[i]) \o Joined(items, i + 1, sep)

\* the fully dotted text of the list of items: (d1 . (d2 . ()))
RECURSIVE DottedText(_, _)
DottedText(items, i) ==
    IF i > Len(items) THEN <<"(", ")">>
    ELSE <<"(">> \o WriteTree(items[i]) \o <<" ", ".", " ">>
         \o DottedText(items, i + 1) \o <<")">>

\* sequences of at most n members of set
SeqsUpTo(set, n) == UNION {[1..m -> set] : m \in 0..n}

ReadCase(text, h, label) == [text |-> text, heap |-> h, label |-> label]

\* atoms of each kind the printer writes
Atoms ==
    {SymA, Sym(<<"e", "1">>), IntNum(1), FloatNum(<<3, 2>>),
     ComplexNum(<<1, 1>>, <<2, 1>>), ComplexNum(<<1, 1>>, <<-2, 1>>),
     Bool(TRUE), Char("("), Str(<<"s">>), nil}
InnerLists == {ListT(items, nil) : items \in SeqsUpTo({SymB, IntNum(2)}, 2) \ {<<>>}}

\* proper lists of atoms and nested proper lists, written by the printer
WrittenCases ==
    {LET d == ProperList(items)
         b == Build(<<>>, d)
     IN  ReadCase(WriteCell(b.heap, b.res), b.heap, [kind |-> "written", exp |-> d]) :
       items \in SeqsUpTo(Atoms \cup InnerLists, MaxListLen)}

\* a list text, and behind it the fully dotted text of the same data
PairData == {SymA, IntNum(1), ListT(<<SymB>>, nil)}
PairCases ==
    {ReadCase(WriteTree(ProperList(items)) \o <<" ">> \o DottedText(items, 1), <<>>,
              [kind |-> "pair", exp |-> ProperList(items)]) :
       items \in SeqsUpTo(PairData, MaxListLen + 1)}

\* lists and vectors, nested, whose text is cut short
CutData ==
    {ListT(<<SymA, SymB>>, nil),
     ListT(<<SymA, ListT(<<SymB, IntNum(1)>>, nil), Str(<<"s">>)>>, nil),
     ListT(<<ListT(<<ListT(<<SymA>>, nil)>>, nil)>>, nil),
     ListT(<<SymA>>, SymB),
     ListT(<<s_quote, SymA>>, nil),
     Vec(<<SymA, SymB>>),
     Vec(<<>>),
     Vec(<<Vec(<<SymA>>), ListT(<<SymB>>, nil)>>),
     ListT(<<SymA, Vec(<<Char("x"), ComplexNum(<<1, 1>>, <<2, 1>>)>>)>>, nil)}
CutCases ==
    {ReadCase(SubSeq(c[1], 1, c[2]), <<>>, [kind |-> "cut"]) :
       c \in UNION {{<<WriteTree(d), n>> :
                       n \in (IF d.t = "Vector" THEN 2 ELSE 1)..(Len(WriteTree(d)) - 1)} :
                    d \in CutData}}

\* nothing but white space and comments, alone or behind a datum
BlankCases ==
    {ReadCase(text, <<>>, [kind |-> "blank"]) :
       text \in {<<>>, <<" ">>, <<"\n", " ", "\t">>, <<";", "a">>,
                 <<" ", ";", "(", "\n", " ">>}}

\* a dot behind the data of before and in front of the data of after
DotBefore == SeqsUpTo({SymA, ListT(<<SymB>>, nil)}, 2)
DotAfter == SeqsUpTo({SymB, ListT(<<SymA>>, nil), nil}, 2)
DotText(before, after) ==
    <<"(">> \o Joined(before, 1, <<" ">>) \o <<" ", ".">> \o Joined(after, 1, <<" ">>)
    \o <<")">>
DotOk(before, after) == Len(before) >= 1 /\ Len(after) = 1
DotLabel(ok, exp) == [kind |-> "dot", ok |-> ok, exp |-> exp]
DotCases ==
    {ReadCase(DotText(b, a), <<>>,
              DotLabel(DotOk(b, a), IF DotOk(b, a) THEN ListT(b, a[1]) ELSE none)) :
       b \in DotBefore, a \in DotAfter}
    \cup {ReadCase(<<".", " ", "a">>, <<>>, DotLabel(FALSE, none)),
          ReadCase(<<"#", "(", "a", " ", ".", " ", "b", ")">>, <<>>, DotLabel(FALSE, none)),
          ReadCase(<<"#", "(", ".", " ", "b", ")">>, <<>>, DotLabel(FALSE, none)),
          ReadCase(<<"(", "a", " ", "(", ".", ")", ")">>, <<>>, DotLabel(FALSE, none)),
          ReadCase(<<"(", "a", " ", "(", "b", " ", ".", " ", "a", ")", ")">>, <<>>,
                   DotLabel(TRUE, ListT(<<SymA, ListT(<<SymB>>, SymA)>>, nil)))}

\* quote forms, comments and the other tokens
OtherCases ==
    {ReadCase(text, <<>>, [kind |-> "other"]) :
       text \in {<<"'", "a">>, <<"(", "a", " ", "'", "b", ")">>,
                 <<BACKQUOTE, "(", "a", " ", ",", "b", " ", ",", "@", "a", ")">>,
                 <<";", "c", "\n", "(", "a", ";", "c", "\n", ")">>,
                 <<"#", "(", "a", " ", ";", "c", "\n", "'", "b", ")">>,
                 <<"#", "r", "e", "\"", "x", "\"">>, <<"#", "f", "a", "l", "s", "e">>,
                 <<"#", "\\", "s", "p", "a", "c", "e", " ", "#", "\\", "x", "4", "1">>,
                 <<"#", "e", "1", ".", "5", " ", "#", "i", "2">>,
                 <<"\"", "a", "\\", "\"", "b", "\"">>, <<"1", "+", ".", "i">>,
                 <<"a", " ", "b">>, <<"(", "a", ")", "(", "b", ")">>, <<")", "a">>}}

\* the value of a hex digit, and of the hex digits of str from place i on
HexDigits == <<"0", "1", "2", "3", "4", "5", "6", "7", "8", "9",
               "A", "B", "C", "D", "E", "F">>
HexDigitVal(c) == (CHOOSE i \in 1..16 : HexDigits[i] = c) - 1
RECURSIVE HexVal(_, _)
HexVal(str, n) == IF n = 0 THEN 0 ELSE 16 * HexVal(str, n - 1) + HexDigitVal(str[n])

\* characters written in the hex form #\xNN
HexTexts == {<<"4", "1">>, <<"6", "1">>, <<"7", "A">>, <<"2", "0">>, <<"A">>, <<"0">>}
HexCases ==
    {ReadCase(<<"#", "\\", "x">> \o d, <<>>,
              [kind |-> "hex", exp |-> Char(CharOfCode(HexVal(d, Len(d))))]) :
       d \in HexTexts}

\* what stands between the quotes of a string literal: plain printable
\* characters and escapes, a backslash followed by a printable character
StringUnits ==
    {<<"a">>, <<" ">>, <<"\\", "n">>, <<"\\", "\"">>, <<"\\", "\\">>, <<"\\", "a">>}
RECURSIVE Flat(_, _)
Flat(units, i) == IF i > Len(units) THEN <<>> ELSE units[i] \o Flat(units, i + 1)
StringContents == {Flat(u, 1) : u \in SeqsUpTo(StringUnits, MaxUnits)}
StringCases ==
    {ReadCase(<<"\"">> \o c \o <<"\"">>, <<>>, [kind |-> "string", content |-> c]) :
       c \in StringContents}

\* ::toupper
ToUpper(c) ==
    IF \E i \in 1..26 : LowerChars[i] = c
    THEN UpperChars[CHOOSE i \in 1..26 : LowerChars[i] = c]
    ELSE c
Lowered(str) == [i \in 1..Len(str) |-> ToLower(str[i])]
Uppered(str) == [i \in 1..Len(str) |-> ToUpper(str[i])]
\* no other row of the table has the name of row k in another letter case
OneCaseRow(k) ==
    \A j \in 1..Len(CharTable) :
        Lowered(CharTable[j][1]) = Lowered(CharTable[k][1]) => j = k
\* the spellings of the name of row k: as the table writes it and, when no
\* other row differs from it by letter case alone, in small and in capital
\* letters
Spellings(k) ==
    {CharTable[k][1]}
        \cup (IF OneCaseRow(k)
              THEN {Lowered(CharTable[k][1]), Uppered(CharTable[k][1])} ELSE {})
NameCases ==
    UNION {{ReadCase(v, <<>>, [kind |-> "charname", row |-> k,
                               exp |-> Char(CharTable[k][2])]) : v \in Spellings(k)} :
             k \in 1..Len(CharTable)}

\* the characters that are written and read back: letters and digits,
\* white space, the characters that end a lexeme, control characters, EOF
WrittenChars ==
    {"a", "z", "x", "A", "Z", "0", "9", "#", "\\", ".", "+", "|"}
        \cup {" ", "\n", "\t", "\r"}
        \cup {"(", ")", "\"", "'", BACKQUOTE, ",", ";"}
        \cup {BEL, BS, EOFCHAR}
\* the written form of a character, alone and in front of another datum
CharCases ==
    {ReadCase(WriteAtom(Char(c)) \o rest, <<>>,
              [kind |-> "char", exp |-> Char(c), rest |-> rest]) :
       c \in WrittenChars, rest \in {<<>>, <<" ", "a">>, <<")">>}}

\* default lexemes that lex_symbol accepts: the first character a symbol
\* character, every character a symbol character or a digit
LexemeChars == {"e", "i", "x", "1", "5", "+", "-"}
SymbolLexemes ==
    {str \in SeqsUpTo(LexemeChars, MaxNameLen) : lex_symbol(str) = "Symbol"}
LexemeCases ==
    {ReadCase(str, <<>>, [kind |-> "lexeme", str |-> str]) : str \in SymbolLexemes}

ReadCases ==
    WrittenCases \cup PairCases \cup CutCases \cup BlankCases \cup DotCases
    \cup OtherCases \cup HexCases \cup StringCases \cup NameCases
    \cup CharCases \cup LexemeCases

InitRead ==
    /\ \E c \in ReadCases :
         /\ rin = c.text
         /\ heap = c.heap
         /\ rcase = c.label
    /\ rps = NewParser
    /\ rstack = <<>>
    /\ rret = none
    /\ rstat = "ready"
    /\ rres = <<>>
    /\ s_expr = none
    /\ rstart = <<>>
    /\ IdlePrint /\ IdleNum /\ IdleCall

SpecRead == InitRead /\ [][NextRead]_vars


\* the first top-level read has left, by return or by exception
FirstDone == Len(rres) >= 1
\* the cell the k-th top-level read returned, as a datum
ReadDatum(k) == Tree(heap, rres[k].cell)

\* C3: a proper list of atoms and nested proper lists that is written and
\* then read back is returned as a list of the same length whose elements
\* are element-wise equal to the original's.
C3_WriteReadRoundTrip ==
    (rcase.kind = "written" /\ FirstDone) =>
        /\ rres[1].stat = "returned"
        /\ ReadDatum(1) = rcase.exp

\* C5: the fully dotted text (d1 . (d2 . ( ... . ()))) is read as the same
\* cell as the list text (d1 d2 ...): "()" is read as Nil, and the chain of
\* pairs read from the dotted text ends in Nil.
C5_DottedSameAsList ==
    (rcase.kind = "pair" /\ Len(rres) = 2) =>
        /\ rres[1].stat = "returned" /\ rres[2].stat = "returned"
        /\ ReadDatum(1) = ReadDatum(2)
        /\ ReadDatum(2) = rcase.exp
C5_Witness ==
    /\ rcase.kind = "pair" /\ Len(rres) = 2
    /\ is_pair(rres[2].cell)
    /\ Len(ReadDatum(2).items) >= 2
    /\ \E i \in 1..Len(ReadDatum(2).items) : ReadDatum(2).items[i].t = "List"

\* only white space is left of the stream from position pos on
BlankFrom(pos) == \A i \in (pos + 1)..Len(rin) : IsSpace(rin[i])

\* C6: a read that starts where nothing but white space (or a comment) is
\* left of the input returns the EOF character and raises nothing; a read
\* that runs out of input behind a "(" or "#(" that is not yet closed, at
\* any depth, raises parse_error and returns no cell.
C6_EofOutsideAndInside ==
    /\ \A k \in 1..Len(rres) :
         (BlankFrom(rstart[k]) \/ (rcase.kind = "blank" /\ k = 1)) =>
             rres[k] = Outcome("returned", Char(EOFCHAR))
    /\ (rcase.kind = "cut" /\ FirstDone) => rres[1] = Outcome("parse_error", none)
C6_Witness ==
    /\ rcase.kind = "cut" /\ Len(rres) = 2
    /\ rres[1].stat = "parse_error"
    /\ rres[2] = Outcome("returned", Char(EOFCHAR))
    /\ \E i \in 2..Len(rin) : rin[i] = "(" /\ rin[i - 1] # "#"
    /\ \E i \in 2..Len(rin) : rin[i] = "(" /\ rin[i - 1] = "#"

\* C7: a dot is accepted in a list only behind at least one element and in
\* front of exactly one datum and the ")"; every other placement of a dot (the
\* first thing in a list, directly in front of ")", in front of two or more
\* data, at top level, in a vector) raises parse_error.
C7_DotPlacement ==
    (rcase.kind = "dot" /\ FirstDone) =>
        IF rcase.ok
        THEN rres[1].stat = "returned" /\ ReadDatum(1) = rcase.exp
        ELSE rres[1] = Outcome("parse_error", none)

\* the outermost active call is parse_list and has consed its first element
TopListConsed ==
    /\ rstat = "reading"
    /\ rstack[1].k \in {"list", "list_item", "list_dot"}
    /\ is_pair(rstack[1].list)
\* the next step of the parse allocates: scm.cons in parse_list, scm.list in read
AtAllocation == rstat = "reading" /\ Top.k \in {"list_item", "quote"}

\* C8: from the moment the first element of a top-level list is consed, the
\* slot of s_expr holds that list at every later allocation of the parse.
C8_SlotHoldsTopList ==
    (TopListConsed /\ AtAllocation) => s_expr = rstack[1].list

\* C9: when a top-level read returns a list, the slot of s_expr no longer
\* holds the list that was registered during the parse.
C9_SlotClearedOnReturn ==
    \A k \in 1..Len(rres) :
        (rstat = "returned" /\ k = Len(rres) /\ is_pair(rres[k].cell)) =>
            s_expr # rres[k].cell


\* C14: a character lexeme of the hex form #\xNN... is read as the character
\* whose code point is NN... taken as a base-16 integer.
C14_HexChar ==
    (rcase.kind = "hex" /\ FirstDone) => rres[1] = Outcome("returned", rcase.exp)

(***************************************************************************)
(*     Writing and displaying one cell that holds no other cell: the       *)
(*     cell is piter, and the text the stream receives is pout             *)
(***************************************************************************)
\* the characters a character cell holds here
AtomChars ==
    {LowerChars[i] : i \in 1..26} \cup {"A", "Z", "0", "9", "(", ";", " "}
        \cup {"\n", "\t", "\r", BEL, BS, EOFCHAR}

\* the characters of the symbol names: a letter and three kinds of whitespace
NameChars == {"a", " ", "\t", "\n"}

AtomSymbols == {Sym(n) : n \in SeqsUpTo(NameChars, MaxNameLen) \ {<<>>}}

AtomStrings == {Str(s) : s \in SeqsUpTo({"a", "n", "\\"}, MaxNameLen)}

AtomCells ==
    {Char(c) : c \in AtomChars} \cup AtomSymbols \cup AtomStrings
        \cup {nil, none, Bool(TRUE), Bool(FALSE)}

InitAtom ==
    /\ piter \in AtomCells
    /\ pheap = <<>>
    /\ pslow = nil
    /\ pout = <<>>
    /\ ppc = "atom"
    /\ heap = <<>>
    /\ IdleNum /\ IdleCall /\ IdleRead

\* os << cell
AtomWrite ==
    /\ ppc = "atom"
    /\ pout' = WriteCell(pheap, piter)
    /\ ppc' = "written"
    /\ UNCHANGED <<pheap, piter, pslow, nvars, cvars, rvars>>

\* os << display(cell)
AtomDisplay ==
    /\ ppc = "atom"
    /\ pout' = DisplayCell(pheap, piter)
    /\ ppc' = "displayed"
    /\ UNCHANGED <<pheap, piter, pslow, nvars, cvars, rvars>>

NextAtom == AtomWrite \/ AtomDisplay

SpecAtom == InitAtom /\ [][NextAtom]_vars

\* the name a character that is not printable has in the table of lex_char
CharName(c) ==
    CharTable[CHOOSE k \in 1..Len(CharTable) :
                /\ CharTable[k][2] = c
                /\ \A j \in 1..(k - 1) : CharTable[j][2] # c][1]

\* the written form of a character: its name when it has no glyph
NamedWrite(c) == IF IsPrint(c) THEN <<"#", "\\", c>> ELSE CharName(c)

\* C15: the write form of a character cell is "#\" followed by the
\* character's name for a named character ("#\newline" for the line break,
\* "#\eof" for the EOF sentinel) and "#\X" for a printable X; the display
\* form is the raw character.
C15_CharWriteDisplay ==
    piter.t = "Char" =>
        /\ ppc = "written" => pout = NamedWrite(piter.c)
        /\ ppc = "displayed" => pout = <<piter.c>>

\* C17: the string lexer stores an escape \X of a literal as the two
\* characters \ and X, so that an escaped double quote does not end the
\* literal and the stored length counts both characters, and the write form
\* of the string that was read is the literal as it stood between its quotes.
C17_EscapesStoredAndWritten ==
    (rcase.kind = "string" /\ FirstDone) =>
        /\ rres[1] = Outcome("returned", Str(rcase.content))
        /\ Len(rres[1].cell.s) = Len(rin) - 2
        /\ (ppc = "wrote" /\ Len(rres) = 1) => pout = rin

\* a literal with an escaped double quote has been read and written
C17_Witness ==
    /\ rcase.kind = "string"
    /\ rcase.content = <<"\\", "\"", "a">>
    /\ ppc = "wrote"
    /\ Len(rres) = 1
    /\ rres[1].cell.s = <<"\\", "\"", "a">>
    /\ pout = <<"\"", "\\", "\"", "a", "\"">>

\* the name holds a whitespace character
HasSpace(name) == \E i \in 1..Len(name) : IsSpace(name[i])

\* C18: a symbol is printed as |name| whenever its name holds a whitespace
\* character (space, tab, newline), and as the bare name otherwise.
C18_BarsForWhitespace ==
    (piter.t = "Symbol" /\ ppc \in {"written", "displayed"}) =>
        pout = IF HasSpace(piter.name) THEN <<"|">> \o piter.name \o <<"|">>
               ELSE piter.name

\* C19: the table of character names is consulted without regard to letter
\* case: a lexeme that spells the name of a row of the table, as the table
\* writes it or in another letter case, is read as the character of that row.
C19_NameTableAnyCase ==
    (rcase.kind = "charname" /\ FirstDone) =>
        rres[1] = Outcome("returned", rcase.exp)

\* C20: whenever a top-level read finishes, by returning a datum or by
\* throwing, the put-back token is None: a token is put back only right
\* before a nested read, which takes it as its first token, so that no token
\* of an earlier read is handed to a later one.
C20_PutBackEmptyAtFinish ==
    /\ rstat # "reading" => rps.put_back = "None"
    /\ rps.put_back # "None" =>
         /\ rstat = "reading"
         /\ Len(rstack) >= 2
         /\ Top.k = "read"
         /\ rstack[Len(rstack) - 1].k \in {"list_item", "vec_item"}

\* a read of a list that was cut short has thrown behind elements that were
\* read from put-back tokens, and a later read has finished too
C20_Witness ==
    /\ rcase.kind = "cut"
    /\ Len(rres) = 2
    /\ rres[1].stat = "parse_error"
    /\ Len(heap) >= 2
    /\ rstat = "returned"
    /\ rps.put_back = "None"

\* C21: for every character c (printable, white space such as space or
\* newline, reader-special such as "(" or ";", and the EOF sentinel), reading
\* the text that the write form of c gives yields the character cell c again.
C21_CharWriteReadRoundTrip ==
    (rcase.kind = "char" /\ FirstDone) =>
        rres[1] = Outcome("returned", rcase.exp)

\* the written forms of a space and of "(" have been read back
C21_Witness ==
    /\ rcase.kind = "char"
    /\ rcase.exp.c \in {" ", "("}
    /\ rcase.rest = <<" ", "a">>
    /\ Len(rres) = 2
    /\ rres[1] = Outcome("returned", rcase.exp)
    /\ rres[2] = Outcome("returned", SymA)

\* cell is what a default lexeme is by its content: the symbol of that
\* name, or the number that lex_number, n being its result, makes of it
ByContent(cell, n, str) == cell = Sym(str) \/ (n.tok = "Number" /\ cell = n.num)

\* C22: the classification of a default lexeme is total: a lexeme that
\* lex_symbol accepts is read as a Symbol unless lex_number accepts it as a
\* number, and no such lexeme (e1, i2, +5x) is rejected as an invalid token.
C22_DefaultLexemeTotal ==
    (rcase.kind = "lexeme" /\ FirstDone) =>
        /\ rres[1].stat = "returned"
        /\ ByContent(rres[1].cell, lex_number(rcase.str), rcase.str)

=============================================================================
